---------------------------- MODULE Spec2Model ----------------------------
(***************************************************************************)
(* Model of src/src/components/Rectangle_Resizing.tsx: the constant-area   *)
(* rectangle editor (component OvalConstantAreaRects).                     *)
(*                                                                         *)
(* State: the rectangle list `rects`, the ellipse `oval`, the drag session *)
(* `dragRef`.  One action per event handler.  The JavaScript numbers are   *)
(* modelled as exact rationals <<n, d>> in lowest terms (d > 0), so that   *)
(* `w * h = area` is an exact statement; floating-point rounding is        *)
(* abstracted away.  Pointer coordinates (clientX / clientY) are integers. *)
(***************************************************************************)
EXTENDS Integers, Sequences, FiniteSets, TLC

VARIABLES rects, oval, dragRef, steps

vars == <<rects, oval, dragRef, steps>>

(***************************************************************************)
(* Bounds of the exploration.                                              *)
(***************************************************************************)
\* number of events (handler invocations) of a behaviour
MaxEvents == 4

(***************************************************************************)
(* Exact rational arithmetic.                                              *)
(***************************************************************************)
Abs(n) == IF n < 0 THEN -n ELSE n

RECURSIVE GCD(_, _)
GCD(a, b) == IF b = 0 THEN a ELSE GCD(b, a % b)

\* the rational n/d in lowest terms, d # 0
Rat(n, d) ==
    LET s == IF d < 0 THEN -1 ELSE 1
        g == GCD(Abs(n), Abs(d))
    IN  <<(s * n) \div g, (s * d) \div g>>

I(n) == <<n, 1>>

RAdd(p, q) == Rat(p[1] * q[2] + q[1] * p[2], p[2] * q[2])
RSub(p, q) == Rat(p[1] * q[2] - q[1] * p[2], p[2] * q[2])
RMul(p, q) ==
    LET a == Rat(p[1], q[2])
        b == Rat(q[1], p[2])
    IN  <<a[1] * b[1], a[2] * b[2]>>
RDiv(p, q) == RMul(p, Rat(q[2], q[1]))

\* comparison of n1/d1 and n2/d2 (d1, d2 > 0) by continued-fraction
\* expansion: no product is formed, so large terms stay in range
RECURSIVE FracLe(_, _, _, _)
FracLe(n1, d1, n2, d2) ==
    LET q1 == n1 \div d1
        q2 == n2 \div d2
        r1 == n1 % d1
        r2 == n2 % d2
    IN  IF q1 # q2 THEN q1 < q2
        ELSE IF r1 = 0 THEN TRUE
        ELSE IF r2 = 0 THEN FALSE
        ELSE FracLe(d2, r2, d1, r1)

RLe(p, q) == FracLe(p[1], p[2], q[1], q[2])
RLt(p, q) == ~RLe(q, p)
RMax(p, q) == IF RLe(p, q) THEN q ELSE p
RMin(p, q) == IF RLe(p, q) THEN p ELSE q

\* integer square root by bisection: the largest k in lo..hi with k*k <= n
RECURSIVE ISqrt(_, _, _)
ISqrt(n, lo, hi) ==
    IF lo >= hi THEN lo
    ELSE LET mid == (lo + hi + 1) \div 2
         IN  IF mid * mid <= n THEN ISqrt(n, mid, hi) ELSE ISqrt(n, lo, mid - 1)

\* the integer part of the square root of n, 0 <= n < 2^31
Root(n) ==
    IF n < 1024 THEN ISqrt(n, 0, 31)
    ELSE IF n < 1048576 THEN ISqrt(n, 32, 1023)
    ELSE ISqrt(n, 1024, 46340)
IsSquare(n) == LET k == Root(n) IN k * k = n

\* q has a rational square root
HasSqrt(q) == q[1] >= 0 /\ IsSquare(q[1]) /\ IsSquare(q[2])
\* Math.sqrt, on the rationals whose root is rational
Sqrt(q) == <<Root(q[1]), Root(q[2])>>

(***************************************************************************)
(* Helpers of the component (lines 14-23).                                 *)
(***************************************************************************)
\* const clamp = (v, min, max) => Math.max(min, Math.min(max, v))
clamp(v, min, max) == RMax(min, RMin(max, v))

\* insideEllipse: dx*dx + dy*dy <= 1 with dx = (x-cx)/rx, dy = (y-cy)/ry,
\* decided as dx*dx <= 1 - dy*dy
insideEllipse(x, y, cx, cy, rx, ry) ==
    LET dx == RDiv(RSub(x, cx), rx)
        dy == RDiv(RSub(y, cy), ry)
        dx2 == <<dx[1] * dx[1], dx[2] * dx[2]>>
        rest == <<dy[2] * dy[2] - dy[1] * dy[1], dy[2] * dy[2]>>
    IN  RLe(dx2, rest)

(***************************************************************************)
(* Constants of the component.                                             *)
(***************************************************************************)
W == 960
H == 560

NULL == [type |-> "null"]
UNDEFINED == [undefined |-> TRUE]

\* useState({ cx: W / 2, cy: H / 2, rx: 320, ry: 200 })
InitOval == [cx |-> Rat(W, 2), cy |-> Rat(H, 2), rx |-> I(320), ry |-> I(200)]

\* initialRects: four 120 x 60 rectangles at (cx -/+ rx/2.2, cy -/+ ry/3)
initialRects ==
    LET o == InitOval
        offX == RDiv(o.rx, Rat(22, 10))
        offY == RDiv(o.ry, I(3))
        positions == << [cx |-> RSub(o.cx, offX), cy |-> RSub(o.cy, offY)],
                        [cx |-> RAdd(o.cx, offX), cy |-> RSub(o.cy, offY)],
                        [cx |-> RSub(o.cx, offX), cy |-> RAdd(o.cy, offY)],
                        [cx |-> RAdd(o.cx, offX), cy |-> RAdd(o.cy, offY)] >>
        colors == << "#2563eb", "#16a34a", "#f59e0b", "#ef4444" >>
        ids == << "R1", "R2", "R3", "R4" >>
    IN  [i \in 1..4 |->
            [id |-> ids[i], cx |-> positions[i].cx, cy |-> positions[i].cy,
             w |-> I(120), h |-> I(60), area |-> I(120 * 60),
             color |-> colors[i]]]

(***************************************************************************)
(* Inputs of the events.                                                   *)
(***************************************************************************)
\* pointer positions (clientX, clientY) of pointer-down events
Origins == { <<100, 100>> }
\* pointer positions of pointer-move events
Pointers == { <<150, 100>>, <<130, 130>>, <<960, 400>> }
\* ids a pointer-down may name; "R9" names no rectangle
TargetIds == { "R1", "R9" }
Directions == { 1, -1 }

(***************************************************************************)
(* Handlers.                                                               *)
(***************************************************************************)
\* rects.find(r => r.id === id)
find(rs, id) ==
    IF \E i \in 1..Len(rs) : rs[i].id = id
    THEN rs[CHOOSE i \in 1..Len(rs) :
                rs[i].id = id /\ \A j \in 1..(i - 1) : rs[j].id # id]
    ELSE UNDEFINED

\* faulty variant of the snapshot: taken from the rectangles as constructed,
\* not from the rectangles at pointer-down
spreadRect_Stale(rs, id, direction) ==
    LET r == find(initialRects, id)
    IN  IF r = UNDEFINED THEN [dir |-> direction]
        ELSE [id |-> r.id, cx |-> r.cx, cy |-> r.cy, w |-> r.w, h |-> r.h,
              area |-> r.area, color |-> r.color, dir |-> direction]

\* { ...rects.find(r => r.id === id)!, dir: direction }
spreadRect(rs, id, direction) ==
    LET r == find(rs, id)
    IN  IF r = UNDEFINED THEN [dir |-> direction]
        ELSE [id |-> r.id, cx |-> r.cx, cy |-> r.cy, w |-> r.w, h |-> r.h,
              area |-> r.area, color |-> r.color, dir |-> direction]

Tick == steps < MaxEvents /\ steps' = steps + 1

onMouseDownRectMove(x, y, id) ==
    /\ Tick
    /\ dragRef' = [type |-> "moveRect", id |-> id, startX |-> x, startY |-> y,
                   orig |-> find(rects, id)]
    /\ UNCHANGED <<rects, oval>>

onMouseDownRectW(x, y, id, direction) ==
    /\ Tick
    /\ dragRef' = [type |-> "resizeRectW", id |-> id, startX |-> x,
                   startY |-> y, orig |-> spreadRect(rects, id, direction)]
    /\ UNCHANGED <<rects, oval>>

onMouseDownRectH(x, y, id, direction) ==
    /\ Tick
    /\ dragRef' = [type |-> "resizeRectH", id |-> id, startX |-> x,
                   startY |-> y, orig |-> spreadRect(rects, id, direction)]
    /\ UNCHANGED <<rects, oval>>

\* { ...oval, dir: direction }
spreadOval(o, direction) ==
    [cx |-> o.cx, cy |-> o.cy, rx |-> o.rx, ry |-> o.ry, dir |-> direction]

onMouseDownOvalRX(x, y, direction) ==
    /\ Tick
    /\ dragRef' = [type |-> "resizeOvalRX", startX |-> x, startY |-> y,
                   orig |-> spreadOval(oval, direction)]
    /\ UNCHANGED <<rects, oval>>

onMouseDownOvalRY(x, y, direction) ==
    /\ Tick
    /\ dragRef' = [type |-> "resizeOvalRY", startX |-> x, startY |-> y,
                   orig |-> spreadOval(oval, direction)]
    /\ UNCHANGED <<rects, oval>>


\* faulty variant of the move: the test r.id !== d.id is missing, every
\* rectangle follows the pointer
moveRectRects_AllRects(rs, d, dx, dy) ==
    [i \in 1..Len(rs) |->
        LET nx == RAdd(rs[i].cx, I(dx))
            ny == RAdd(rs[i].cy, I(dy))
        IN  [rs[i] EXCEPT !.cx = clamp(nx, I(0), I(W)),
                          !.cy = clamp(ny, I(0), I(H))]]

\* onMouseMove, type "moveRect": the live center plus the delta, clamped to
\* the canvas (lines 127-138)
moveRectRects(rs, d, dx, dy) ==
    [i \in 1..Len(rs) |->
        IF rs[i].id # d.id THEN rs[i]
        ELSE LET nx == RAdd(rs[i].cx, I(dx))
                 ny == RAdd(rs[i].cy, I(dy))
             IN  [rs[i] EXCEPT !.cx = clamp(nx, I(0), I(W)),
                               !.cy = clamp(ny, I(0), I(H))]]

\* faulty variant of the width resize: the height is derived from the
\* snapshot's width instead of the new width
resizeRectWRects_StaleHeight(rs, d, dx) ==
    LET w == RMax(I(20), RAdd(d.orig.w, I(d.orig.dir * dx)))
        h == clamp(RDiv(d.orig.area, d.orig.w), I(10), I(600))
    IN  [i \in 1..Len(rs) |->
            IF rs[i].id = d.id THEN [rs[i] EXCEPT !.w = w, !.h = h]
            ELSE rs[i]]

\* faulty variant of the width resize: the delta is added to the live width
\* instead of the snapshot's width
resizeRectWRects_LiveWidth(rs, d, dx) ==
    [i \in 1..Len(rs) |->
        IF rs[i].id # d.id THEN rs[i]
        ELSE LET w == RMax(I(20), RAdd(rs[i].w, I(d.orig.dir * dx)))
                 h == clamp(RDiv(d.orig.area, w), I(10), I(600))
             IN  [rs[i] EXCEPT !.w = w, !.h = h]]

\* onMouseMove, type "resizeRectW" (lines 140-147)
resizeRectWRects(rs, d, dx) ==
    LET w == RMax(I(20), RAdd(d.orig.w, I(d.orig.dir * dx)))
        h == clamp(RDiv(d.orig.area, w), I(10), I(600))
    IN  [i \in 1..Len(rs) |->
            IF rs[i].id = d.id THEN [rs[i] EXCEPT !.w = w, !.h = h]
            ELSE rs[i]]

\* faulty variant of the height resize: the floor of 10 is missing
resizeRectHRects_NoFloor(rs, d, dy) ==
    LET h == RAdd(d.orig.h, I(d.orig.dir * dy))
        w == clamp(RDiv(d.orig.area, h), I(20), I(900))
    IN  [i \in 1..Len(rs) |->
            IF rs[i].id = d.id THEN [rs[i] EXCEPT !.w = w, !.h = h]
            ELSE rs[i]]

\* onMouseMove, type "resizeRectH" (lines 149-155)
resizeRectHRects(rs, d, dy) ==
    LET h == RMax(I(10), RAdd(d.orig.h, I(d.orig.dir * dy)))
        w == clamp(RDiv(d.orig.area, h), I(20), I(900))
    IN  [i \in 1..Len(rs) |->
            IF rs[i].id = d.id THEN [rs[i] EXCEPT !.w = w, !.h = h]
            ELSE rs[i]]

\* faulty variant of the radius resize: the upper bound is W / 2 + 40
resizeOvalRXOval_WideBound(o, d, dx) ==
    [o EXCEPT !.rx = clamp(RAdd(d.orig.rx, I(d.orig.dir * dx)),
                           I(60), RAdd(Rat(W, 2), I(40)))]

\* onMouseMove, type "resizeOvalRX" (lines 157-162)
resizeOvalRXOval(o, d, dx) ==
    [o EXCEPT !.rx = clamp(RAdd(d.orig.rx, I(d.orig.dir * dx)),
                           I(60), RSub(Rat(W, 2), I(40)))]

\* onMouseMove, type "resizeOvalRY" (lines 164-169)
resizeOvalRYOval(o, d, dy) ==
    [o EXCEPT !.ry = clamp(RAdd(d.orig.ry, I(d.orig.dir * dy)),
                           I(60), RSub(Rat(H, 2), I(40)))]

\* faulty variant of the move: the tests on the session's target are
\* missing, a move session moves every rectangle
moveRects_NoTargetTest(rs, d, x, y) ==
    IF d = NULL THEN rs
    ELSE LET dx == x - d.startX
             dy == y - d.startY
         IN  IF d.type = "moveRect"
                THEN [i \in 1..Len(rs) |->
                        [rs[i] EXCEPT
                           !.cx = clamp(RAdd(rs[i].cx, I(dx)), I(0), I(W)),
                           !.cy = clamp(RAdd(rs[i].cy, I(dy)), I(0), I(H))]]
             ELSE IF d.type = "resizeRectW" THEN resizeRectWRects(rs, d, dx)
             ELSE IF d.type = "resizeRectH" THEN resizeRectHRects(rs, d, dy)
             ELSE rs

\* the rectangles after onMouseMove at pointer (x, y) with session d
moveRects(rs, d, x, y) ==
    IF d = NULL THEN rs
    ELSE LET dx == x - d.startX
             dy == y - d.startY
         IN  IF d.type = "moveRect" /\ d.orig # UNDEFINED
                THEN moveRectRects(rs, d, dx, dy)
             ELSE IF d.type = "resizeRectW" THEN resizeRectWRects(rs, d, dx)
             ELSE IF d.type = "resizeRectH" THEN resizeRectHRects(rs, d, dy)
             ELSE rs

\* the ellipse after onMouseMove at pointer (x, y) with session d
moveOval(o, d, x, y) ==
    IF d = NULL THEN o
    ELSE LET dx == x - d.startX
             dy == y - d.startY
         IN  IF d.type = "resizeOvalRX" THEN resizeOvalRXOval(o, d, dx)
             ELSE IF d.type = "resizeOvalRY" THEN resizeOvalRYOval(o, d, dy)
             ELSE o

onMouseMove(x, y) ==
    /\ Tick
    /\ rects' = moveRects(rects, dragRef, x, y)
    /\ oval' = moveOval(oval, dragRef, x, y)
    /\ UNCHANGED dragRef

\* faulty variant of the reconciliation: the half extents are left out of
\* the bounds
reconcileRect_NoHalfExtent(r, o) ==
    IF insideEllipse(r.cx, r.cy, o.cx, o.cy, o.rx, o.ry) THEN r
    ELSE [r EXCEPT !.cx = clamp(r.cx, RSub(o.cx, o.rx), RAdd(o.cx, o.rx)),
                   !.cy = clamp(r.cy, RSub(o.cy, o.ry), RAdd(o.cy, o.ry))]

\* faulty variant of the reconciliation: the center is clamped whether or
\* not it is inside the ellipse
reconcileRect_AlwaysClamp(r, o) ==
    LET halfW == RDiv(r.w, I(2))
        halfH == RDiv(r.h, I(2))
    IN  [r EXCEPT !.cx = clamp(r.cx, RAdd(RSub(o.cx, o.rx), halfW),
                                     RSub(RAdd(o.cx, o.rx), halfW)),
                  !.cy = clamp(r.cy, RAdd(RSub(o.cy, o.ry), halfH),
                                     RSub(RAdd(o.cy, o.ry), halfH))]

\* the body of setRects in onMouseUp (lines 175-183)
reconcileRect(r, o) ==
    IF insideEllipse(r.cx, r.cy, o.cx, o.cy, o.rx, o.ry) THEN r
    ELSE LET halfW == RDiv(r.w, I(2))
             halfH == RDiv(r.h, I(2))
             nx == clamp(r.cx, RAdd(RSub(o.cx, o.rx), halfW),
                               RSub(RAdd(o.cx, o.rx), halfW))
             ny == clamp(r.cy, RAdd(RSub(o.cy, o.ry), halfH),
                               RSub(RAdd(o.cy, o.ry), halfH))
         IN  [r EXCEPT !.cx = nx, !.cy = ny]

reconcile(rs, o) == [i \in 1..Len(rs) |-> reconcileRect(rs[i], o)]

\* faulty variant of the release: the session is not cleared
onMouseUp_KeepSession ==
    /\ Tick
    /\ dragRef' = dragRef
    /\ rects' = reconcile(rects, oval)
    /\ UNCHANGED oval

onMouseUp ==
    /\ Tick
    /\ dragRef' = NULL
    /\ rects' = reconcile(rects, oval)
    /\ UNCHANGED oval

\* faulty variant of Normalize: the ratio is taken as height / width
normalizeRect_InverseRatio(r) ==
    LET w == Sqrt(RMul(r.area, RDiv(r.h, r.w)))
        h == RDiv(r.area, w)
    IN  [r EXCEPT !.w = w, !.h = h]

\* "Normalize sizes" (lines 272-279)
normalizeRect(r) ==
    LET w == Sqrt(RMul(r.area, RDiv(r.w, r.h)))
        h == RDiv(r.area, w)
    IN  [r EXCEPT !.w = w, !.h = h]

\* the root taken by normalizeRect is rational
canNormalize(r) == HasSqrt(RMul(r.area, RDiv(r.w, r.h)))

\* explored in the states where the root of every rectangle is rational
Normalize ==
    /\ Tick
    /\ UNCHANGED <<oval, dragRef>>
    /\ \A i \in 1..Len(rects) : canNormalize(rects[i])
    /\ rects' = [i \in 1..Len(rects) |-> normalizeRect(rects[i])]

\* the values Math.random() returns during one "Randomize aspect", one per
\* rectangle, each in [0, 1)
Draws == { << Rat(0, 1), Rat(0, 1), Rat(0, 1), Rat(0, 1) >>,
           << Rat(7, 8), Rat(7, 8), Rat(7, 8), Rat(7, 8) >>,
           << Rat(7, 8), Rat(0, 1), Rat(0, 1), Rat(7, 8) >> }

\* clamp(Math.random() * 3 + 0.5, 0.5, 3.5), u the value drawn
aspectOf(u) == clamp(RAdd(RMul(u, I(3)), Rat(1, 2)), Rat(1, 2), Rat(7, 2))

\* faulty variant of Randomize: the height is the root of area * aspect
randomizeRect_InverseAspect(r, u) ==
    LET aspect == aspectOf(u)
        h == Sqrt(RMul(r.area, aspect))
        w == RDiv(r.area, h)
    IN  [r EXCEPT !.w = w, !.h = h]

\* faulty variant of Randomize: the rectangle is also pulled to the center
\* of the canvas
randomizeRect_Recenter(r, u) ==
    LET aspect == aspectOf(u)
        h == Sqrt(RDiv(r.area, aspect))
        w == RDiv(r.area, h)
    IN  [r EXCEPT !.w = w, !.h = h, !.cx = Rat(W, 2), !.cy = Rat(H, 2)]

\* "Randomize aspect" (lines 283-291) for one rectangle, u the value drawn
randomizeRect(r, u) ==
    LET aspect == aspectOf(u)
        h == Sqrt(RDiv(r.area, aspect))
        w == RDiv(r.area, h)
    IN  [r EXCEPT !.w = w, !.h = h]

\* the root taken by randomizeRect is rational
canRandomize(r, u) == HasSqrt(RDiv(r.area, aspectOf(u)))

Randomize ==
    /\ Tick
    /\ UNCHANGED <<oval, dragRef>>
    /\ \E us \in Draws :
          /\ \A i \in 1..Len(rects) : canRandomize(rects[i], us[i])
          /\ rects' = [i \in 1..Len(rects) |-> randomizeRect(rects[i], us[i])]

(***************************************************************************)
(* The component as a state machine.                                       *)
(***************************************************************************)
Init ==
    /\ rects = initialRects
    /\ oval = InitOval
    /\ dragRef = NULL
    /\ steps = 0

PointerDownRectMove ==
    \E p \in Origins, id \in TargetIds : onMouseDownRectMove(p[1], p[2], id)
PointerDownRectW ==
    \E p \in Origins, id \in TargetIds, dir \in Directions :
        onMouseDownRectW(p[1], p[2], id, dir)
PointerDownRectH ==
    \E p \in Origins, id \in TargetIds, dir \in Directions :
        onMouseDownRectH(p[1], p[2], id, dir)
PointerDownOvalRX ==
    \E p \in Origins, dir \in Directions : onMouseDownOvalRX(p[1], p[2], dir)
PointerDownOvalRY ==
    \E p \in Origins, dir \in Directions : onMouseDownOvalRY(p[1], p[2], dir)
PointerMove == \E p \in Pointers : onMouseMove(p[1], p[2])
\* <svg onMouseUp={onMouseUp} onMouseLeave={onMouseUp}>
PointerUp == onMouseUp
PointerLeave == onMouseUp

Next ==
    \/ PointerDownRectMove
    \/ PointerDownRectW
    \/ PointerDownRectH
    \/ PointerDownOvalRX
    \/ PointerDownOvalRY
    \/ PointerMove
    \/ PointerUp
    \/ PointerLeave
    \/ Normalize
    \/ Randomize

Spec == Init /\ [][Next]_vars

\* The component after two drag sessions: R1's right width handle dragged
\* from (100,100) to (960,400), then, without releasing, the ellipse's left
\* rx handle (direction -1) dragged from (100,100) to (960,400).  Spec
\* reaches this state with its fourth event; the session on the ellipse is
\* still active.
LaterState ==
    /\ rects = [initialRects EXCEPT ![1].w = I(980), ![1].h = I(10)]
    /\ oval = [InitOval EXCEPT !.rx = I(60)]
    /\ dragRef = [type |-> "resizeOvalRX", startX |-> 100, startY |-> 100,
                  orig |-> spreadOval(InitOval, -1)]

InitLater == LaterState /\ steps = 0

\* the same component, observed from LaterState on
SpecLater == InitLater /\ [][Next]_vars

(***************************************************************************)
(* Vocabulary of the properties.                                           *)
(***************************************************************************)
\* width * height == area
AreaOK(r) == RMul(r.w, r.h) = r.area

\* the session addresses an existing rectangle
RectSession(d, kind) == d.type = kind /\ find(rects, d.id) # UNDEFINED

\* snapshot.width + direction * delta.x, snapshot.height + direction * delta.y
candidateWidth(d, x) == RAdd(d.orig.w, I(d.orig.dir * (x - d.startX)))
candidateHeight(d, y) == RAdd(d.orig.h, I(d.orig.dir * (y - d.startY)))

\* q lies strictly between lo and hi
Within(q, lo, hi) == RLt(I(lo), q) /\ RLt(q, I(hi))

\* no floor and no clamp bound is hit by a move to p
UnclampedW(d, p) ==
    /\ RLt(I(20), candidateWidth(d, p[1]))
    /\ Within(RDiv(d.orig.area, candidateWidth(d, p[1])), 10, 600)
UnclampedH(d, p) ==
    /\ RLt(I(10), candidateHeight(d, p[2]))
    /\ Within(RDiv(d.orig.area, candidateHeight(d, p[2])), 20, 900)

(***************************************************************************)
(* C1 - after a pointer-move of a width or height resize session in which  *)
(* no floor and no clamp bound is hit, the target rectangle has            *)
(* width * height = area, whatever the earlier states were.                *)
(***************************************************************************)
C1_AreaAfterUnclampedResize ==
    [][\A p \in Pointers :
         /\ (onMouseMove(p[1], p[2]) /\ RectSession(dragRef, "resizeRectW")
               /\ UnclampedW(dragRef, p))
            => AreaOK(find(rects', dragRef.id))
         /\ (onMouseMove(p[1], p[2]) /\ RectSession(dragRef, "resizeRectH")
               /\ UnclampedH(dragRef, p))
            => AreaOK(find(rects', dragRef.id))]_vars

\* a width resize, started from a rectangle whose area had drifted, has
\* written an unclamped width and height
C1_Witness ==
    /\ RectSession(dragRef, "resizeRectW")
    /\ ~AreaOK(dragRef.orig)
    /\ \E p \in Pointers :
          /\ UnclampedW(dragRef, p)
          /\ find(rects, dragRef.id).w = candidateWidth(dragRef, p[1])
          /\ find(rects, dragRef.id).w # dragRef.orig.w

(***************************************************************************)
(* C2 - in every reachable state every rectangle has                       *)
(* width * height = area.                                                  *)
(***************************************************************************)
C2_AreaInvariant == \A i \in 1..Len(rects) : AreaOK(rects[i])

(***************************************************************************)
(* C3 - a pointer-move of a MoveRectangle session puts the target's center *)
(* at the snapshot's center plus the delta, x clamped to [0, 960] and y to *)
(* [0, 560].                                                               *)
(***************************************************************************)
C3_MoveFromSnapshot ==
    [][\A p \in Pointers :
         (onMouseMove(p[1], p[2]) /\ RectSession(dragRef, "moveRect"))
         => LET r == find(rects', dragRef.id)
                dx == p[1] - dragRef.startX
                dy == p[2] - dragRef.startY
            IN  /\ r.cx = clamp(RAdd(dragRef.orig.cx, I(dx)), I(0), I(960))
                /\ r.cy = clamp(RAdd(dragRef.orig.cy, I(dy)), I(0), I(560))]_vars

(***************************************************************************)
(* C4 - in a MoveRectangle session two pointer-moves to the same position  *)
(* leave the rectangles where one such pointer-move leaves them.           *)
(***************************************************************************)
C4_MoveIdempotent ==
    RectSession(dragRef, "moveRect") =>
        \A p \in Pointers :
            moveRects(moveRects(rects, dragRef, p[1], p[2]), dragRef, p[1], p[2])
                = moveRects(rects, dragRef, p[1], p[2])

(***************************************************************************)
(* C5 - in a resize session (rectangle width or height, ellipse radius) the*)
(* geometry a pointer-move writes does not depend on an earlier            *)
(* pointer-move of the session; with origin x = 100, snapshot width 120 and*)
(* direction +1 a move to x = 150 writes width 170 and a following move to *)
(* x = 130 writes width 150.                                               *)
(***************************************************************************)
ResizeKinds == { "resizeRectW", "resizeRectH", "resizeOvalRX", "resizeOvalRY" }

C5_ResizeFromSnapshot ==
    dragRef.type \in ResizeKinds =>
        /\ \A p, q \in Pointers :
              /\ moveRects(moveRects(rects, dragRef, p[1], p[2]),
                           dragRef, q[1], q[2])
                    = moveRects(rects, dragRef, q[1], q[2])
              /\ moveOval(moveOval(oval, dragRef, p[1], p[2]),
                          dragRef, q[1], q[2])
                    = moveOval(oval, dragRef, q[1], q[2])
        /\ (/\ RectSession(dragRef, "resizeRectW")
            /\ dragRef.startX = 100 /\ dragRef.orig.w = I(120)
            /\ dragRef.orig.dir = 1)
           => LET first == moveRects(rects, dragRef, 150, 100)
                  second == moveRects(first, dragRef, 130, 100)
              IN  /\ find(first, dragRef.id).w = I(170)
                  /\ find(second, dragRef.id).w = I(150)

\* the session of the example after its move to x = 150
C5_Witness ==
    /\ RectSession(dragRef, "resizeRectW")
    /\ dragRef.startX = 100 /\ dragRef.orig.w = I(120) /\ dragRef.orig.dir = 1
    /\ find(rects, dragRef.id).w = I(170)

(***************************************************************************)
(* C6 - a width resize whose candidate width is below 20 writes width 20   *)
(* and height clamp(area / 20, 10, 600); a height resize whose candidate   *)
(* height is below 10 writes height 10 and width clamp(area / 10, 20, 900).*)
(***************************************************************************)
C6_FloorEnforcement ==
    [][\A p \in Pointers :
         /\ (onMouseMove(p[1], p[2]) /\ RectSession(dragRef, "resizeRectW")
               /\ RLt(candidateWidth(dragRef, p[1]), I(20)))
            => LET r == find(rects', dragRef.id)
               IN  /\ r.w = I(20)
                   /\ r.h = clamp(RDiv(r.area, I(20)), I(10), I(600))
         /\ (onMouseMove(p[1], p[2]) /\ RectSession(dragRef, "resizeRectH")
               /\ RLt(candidateHeight(dragRef, p[2]), I(10)))
            => LET r == find(rects', dragRef.id)
               IN  /\ r.h = I(10)
                   /\ r.w = clamp(RDiv(r.area, I(10)), I(20), I(900))]_vars

\* a width resize has been driven below the floor and has written the floor
C6_Witness ==
    /\ RectSession(dragRef, "resizeRectW")
    /\ find(rects, dragRef.id).w = I(20)
    /\ find(rects, dragRef.id).w # dragRef.orig.w
    /\ \E p \in Pointers : RLt(candidateWidth(dragRef, p[1]), I(20))

\* the center of r is inside the ellipse o
Inside(r, o) == insideEllipse(r.cx, r.cy, o.cx, o.cy, o.rx, o.ry)

\* the bounds [center - radius + halfExtent, center + radius - halfExtent]
loX(r, o) == RAdd(RSub(o.cx, o.rx), RDiv(r.w, I(2)))
hiX(r, o) == RSub(RAdd(o.cx, o.rx), RDiv(r.w, I(2)))
loY(r, o) == RAdd(RSub(o.cy, o.ry), RDiv(r.h, I(2)))
hiY(r, o) == RSub(RAdd(o.cy, o.ry), RDiv(r.h, I(2)))
InBoxX(r, o) == RLe(loX(r, o), r.cx) /\ RLe(r.cx, hiX(r, o))
InBoxY(r, o) == RLe(loY(r, o), r.cy) /\ RLe(r.cy, hiY(r, o))

(***************************************************************************)
(* C7 - when a session ends, every rectangle whose center was outside the  *)
(* ellipse has its center x in [cx - rx + w/2, cx + rx - w/2] and its      *)
(* center y in [cy - ry + h/2, cy + ry - h/2], whatever its size.          *)
(***************************************************************************)
C7_ReconcileIntoBox ==
    [][onMouseUp =>
         \A i \in 1..Len(rects) :
            ~Inside(rects[i], oval)
            => InBoxX(rects'[i], oval') /\ InBoxY(rects'[i], oval')]_vars

(***************************************************************************)
(* C7 as amended - when a session ends, every rectangle whose center was   *)
(* outside the ellipse has its center x in [cx - rx + w/2, cx + rx - w/2]  *)
(* if w <= 2 * rx and at cx - rx + w/2 otherwise, and its center y in      *)
(* [cy - ry + h/2, cy + ry - h/2] if h <= 2 * ry and at cy - ry + h/2      *)
(* otherwise.                                                              *)
(***************************************************************************)
C7_ReconcileClamp ==
    [][onMouseUp =>
         \A i \in 1..Len(rects) :
            ~Inside(rects[i], oval)
            => LET r == rects'[i]
                   o == oval'
               IN  /\ IF RLe(r.w, RMul(I(2), o.rx))
                         THEN InBoxX(r, o) ELSE r.cx = loX(r, o)
                   /\ IF RLe(r.h, RMul(I(2), o.ry))
                         THEN InBoxY(r, o) ELSE r.cy = loY(r, o)]_vars

\* a session has ended with a rectangle wider than the ellipse pulled to the
\* lower bound
C7_Witness ==
    /\ dragRef = NULL
    /\ \E i \in 1..Len(rects) :
          /\ RLt(RMul(I(2), oval.rx), rects[i].w)
          /\ rects[i].cx = loX(rects[i], oval)
          /\ rects[i].cx # initialRects[i].cx

(***************************************************************************)
(* C8 - reconciliation leaves every rectangle whose center is inside the   *)
(* ellipse unchanged (so leaves the center of an inside rectangle after a  *)
(* width resize unchanged), and reconciling its result again changes       *)
(* nothing.                                                                *)
(***************************************************************************)
C8_ReconcileIdempotent ==
    [][onMouseUp =>
         /\ \A i \in 1..Len(rects) :
               Inside(rects[i], oval) => rects'[i] = rects[i]
         /\ reconcile(rects', oval') = rects']_vars

\* a session has ended leaving one rectangle, pulled back, still outside the
\* ellipse and another one inside
C8_Witness ==
    /\ dragRef = NULL
    /\ \E i, j \in 1..Len(rects) :
          /\ ~Inside(rects[i], oval)
          /\ InBoxX(rects[i], oval) /\ InBoxY(rects[i], oval)
          /\ rects[i].cx # initialRects[i].cx
          /\ Inside(rects[j], oval)

(***************************************************************************)
(* C9 - in every reachable state 60 <= rx <= 440 and 60 <= ry <= 240, and  *)
(* the center of the ellipse is (480, 280).                                *)
(***************************************************************************)
C9_OvalBounds ==
    /\ RLe(I(60), oval.rx) /\ RLe(oval.rx, I(440))
    /\ RLe(I(60), oval.ry) /\ RLe(oval.ry, I(240))
    /\ oval.cx = I(480) /\ oval.cy = I(280)

\* both radii have been driven against a bound
C9_Witness == oval.rx = I(60) /\ oval.ry = I(240)

(***************************************************************************)
(* C10 - Normalize leaves every rectangle with width * height = area and   *)
(* width^2 = area * (old width / old height); a rectangle that had         *)
(* width * height = area is unchanged; normalizing the result again        *)
(* changes nothing.                                                        *)
(***************************************************************************)
C10_Normalize ==
    [][Normalize =>
         /\ \A i \in 1..Len(rects) :
               /\ AreaOK(rects'[i])
               /\ RMul(rects'[i].w, rects'[i].w)
                     = RMul(rects[i].area, RDiv(rects[i].w, rects[i].h))
               /\ AreaOK(rects[i]) => rects'[i] = rects[i]
         /\ \A i \in 1..Len(rects) :
               canNormalize(rects'[i]) /\ normalizeRect(rects'[i]) = rects'[i]]_vars

\* a rectangle that had drifted to 980 x 10 has been normalized to 840 x 60/7
C10_Witness ==
    \E i \in 1..Len(rects) : rects[i].w = I(840) /\ rects[i].h = Rat(60, 7)

(***************************************************************************)
(* C11 - Randomize aspect rewrites every rectangle with its own drawn      *)
(* aspect, 1/2 <= aspect <= 7/2, so that afterwards width * height = area  *)
(* and width / height = aspect, whatever the width and height were.        *)
(***************************************************************************)
C11_Randomize ==
    [][Randomize =>
         \E us \in Draws :
            \A i \in 1..Len(rects) :
               /\ RLe(Rat(1, 2), aspectOf(us[i]))
               /\ RLe(aspectOf(us[i]), Rat(7, 2))
               /\ AreaOK(rects'[i])
               /\ RDiv(rects'[i].w, rects'[i].h) = aspectOf(us[i])]_vars

\* two rectangles carry the sizes of two different draws, 60 x 120 (aspect
\* 1/2) and 150 x 48 (aspect 25/8)
C11_Witness ==
    \E i, j \in 1..Len(rects) :
        /\ rects[i].w = I(60) /\ rects[i].h = I(120)
        /\ rects[j].w = I(150) /\ rects[j].h = I(48)

(***************************************************************************)
(* C12 - Normalize and Randomize aspect change only the width and height   *)
(* of rectangles: centers, ids, areas, the ellipse and the drag session    *)
(* are unchanged, also when the new sizes overflow the ellipse.            *)
(***************************************************************************)
C12_BatchFrame ==
    [][(Normalize \/ Randomize) =>
         /\ oval' = oval
         /\ dragRef' = dragRef
         /\ Len(rects') = Len(rects)
         /\ \A i \in 1..Len(rects) :
               rects'[i] = [rects[i] EXCEPT !.w = rects'[i].w,
                                            !.h = rects'[i].h]]_vars

\* a rectangle drawn at 150 x 48 stands at its initial center, wider than
\* the ellipse
C12_Witness ==
    \E i \in 1..Len(rects) :
        /\ rects[i].w = I(150) /\ rects[i].h = I(48)
        /\ rects[i].cx = initialRects[i].cx /\ rects[i].cy = initialRects[i].cy
        /\ RLt(RMul(I(2), oval.rx), rects[i].w)

(***************************************************************************)
(* C13 - a Normalize or Randomize aspect command rewrites the rectangles   *)
(* only while no drag session is active.                                   *)
(***************************************************************************)
C13_BatchOnlyIdle == [][(Normalize \/ Randomize) => dragRef = NULL]_vars

\* the session names a rectangle that does not exist
UnknownTarget(d) ==
    /\ d.type \in { "moveRect", "resizeRectW", "resizeRectH" }
    /\ find(rects, d.id) = UNDEFINED

(***************************************************************************)
(* C14 - a pointer-down on a move, width or height handle whose target id  *)
(* matches no rectangle changes nothing but the session, the pointer-moves *)
(* of that session change no rectangle and not the ellipse, and the        *)
(* pointer-up that ends it does what a pointer-up does without them.       *)
(***************************************************************************)
C14_UnknownTargetNoOp ==
    [][/\ (UnknownTarget(dragRef') /\ dragRef' # dragRef)
          => rects' = rects /\ oval' = oval
       /\ \A p \in Pointers :
             (onMouseMove(p[1], p[2]) /\ UnknownTarget(dragRef))
             => rects' = rects /\ oval' = oval
       /\ (onMouseUp /\ UnknownTarget(dragRef))
          => rects' = reconcile(rects, oval) /\ oval' = oval]_vars

\* a session on the unknown target "R9" is under way
C14_Witness == UnknownTarget(dragRef) /\ dragRef.id = "R9" /\ steps >= 2

\* rectangle i differs between the two states at most in width and height
OnlySizeChanges(i) ==
    rects'[i] = [rects[i] EXCEPT !.w = rects'[i].w, !.h = rects'[i].h]

\* rectangle i differs between the two states at most in its center
OnlyCenterChanges(i) ==
    rects'[i] = [rects[i] EXCEPT !.cx = rects'[i].cx, !.cy = rects'[i].cy]

\* during a rectangle session, every rectangle but the target is untouched
OnlyTargetChanges ==
    \A i \in 1..Len(rects) : rects[i].id # dragRef.id => rects'[i] = rects[i]

(***************************************************************************)
(* C15 - every event changes only the fields its kind owns: a resize move  *)
(* only the target's width and height, a move-rectangle move only the      *)
(* target's center, an ellipse-resize move only the addressed radius, the  *)
(* reconciliation only centers; and no event changes a rectangle's id,     *)
(* area or color, or the number or order of the rectangles.                *)
(***************************************************************************)
C15_EventFrame ==
    [][/\ Len(rects') = Len(rects)
       /\ \A i \in 1..Len(rects) :
             /\ rects'[i].id = rects[i].id
             /\ rects'[i].area = rects[i].area
             /\ rects'[i].color = rects[i].color
       /\ \A p \in Pointers :
             (onMouseMove(p[1], p[2]) /\ dragRef # NULL) =>
                /\ dragRef.type \in { "resizeRectW", "resizeRectH" } =>
                      /\ \A i \in 1..Len(rects) : OnlySizeChanges(i)
                      /\ OnlyTargetChanges
                      /\ oval' = oval
                /\ dragRef.type = "moveRect" =>
                      /\ \A i \in 1..Len(rects) : OnlyCenterChanges(i)
                      /\ OnlyTargetChanges
                      /\ oval' = oval
                /\ dragRef.type = "resizeOvalRX" =>
                      /\ rects' = rects
                      /\ oval' = [oval EXCEPT !.rx = oval'.rx]
                /\ dragRef.type = "resizeOvalRY" =>
                      /\ rects' = rects
                      /\ oval' = [oval EXCEPT !.ry = oval'.ry]
       /\ onMouseUp =>
             /\ \A i \in 1..Len(rects) : OnlyCenterChanges(i)
             /\ oval' = oval]_vars

\* a move session has displaced its target, and only its target
C15_Witness ==
    /\ dragRef # NULL
    /\ RectSession(dragRef, "moveRect")
    /\ find(rects, dragRef.id).cx # dragRef.orig.cx
    /\ \A i \in 1..Len(rects) :
          rects[i].id # dragRef.id => rects[i] = initialRects[i]

(***************************************************************************)
(* C16 - pointer-up and pointer-leave are indistinguishable: from an       *)
(* active session either one ends the session and applies the containment  *)
(* reconciliation to all rectangles; and a pointer-move received while no  *)
(* session is active changes no rectangle and no ellipse field.            *)
(***************************************************************************)
C16_UpLeaveSame ==
    [][/\ (PointerUp /\ dragRef # NULL) =>
             /\ dragRef' = NULL
             /\ rects' = reconcile(rects, oval)
             /\ oval' = oval
       /\ (PointerLeave /\ dragRef # NULL) =>
             /\ dragRef' = NULL
             /\ rects' = reconcile(rects, oval)
             /\ oval' = oval
       /\ \A p \in Pointers :
             (onMouseMove(p[1], p[2]) /\ dragRef = NULL) =>
                /\ rects' = rects
                /\ oval' = oval
                /\ dragRef' = NULL]_vars

\* a session has ended with a reconciliation that moved a center, and an
\* event was received after it
C16_Witness ==
    /\ dragRef = NULL
    /\ steps >= 4
    /\ rects = reconcile(rects, oval)
    /\ \E i \in 1..Len(rects) : rects[i].cx # initialRects[i].cx

\* the step is a pointer-down on some handle
IsPointerDown ==
    \/ PointerDownRectMove
    \/ PointerDownRectW
    \/ PointerDownRectH
    \/ PointerDownOvalRX
    \/ PointerDownOvalRY

\* the new session was started at pointer (x, y) with the given kind
StartedAt(kind, x, y) ==
    /\ dragRef'.type = kind
    /\ dragRef'.startX = x
    /\ dragRef'.startY = y

\* the new session's snapshot is the geometry of rectangle id before the step
SnapshotOfRect(id) ==
    LET r == find(rects, id)
    IN  r # UNDEFINED =>
           /\ dragRef'.id = r.id
           /\ dragRef'.orig.cx = r.cx
           /\ dragRef'.orig.cy = r.cy
           /\ dragRef'.orig.w = r.w
           /\ dragRef'.orig.h = r.h
           /\ dragRef'.orig.area = r.area

\* the new session's snapshot is the geometry of the ellipse before the step
SnapshotOfOval ==
    /\ dragRef'.orig.cx = oval.cx
    /\ dragRef'.orig.cy = oval.cy
    /\ dragRef'.orig.rx = oval.rx
    /\ dragRef'.orig.ry = oval.ry

(***************************************************************************)
(* C17 - a pointer-down changes no rectangle and no ellipse field; the     *)
(* session it creates holds the pointer position of the event, the given   *)
(* direction and a snapshot of the addressed entity's geometry at          *)
(* pointer-down, also when it replaces an active session; and the session  *)
(* record changes only by a pointer-down or by the end of the session.     *)
(***************************************************************************)
C17_PointerDownSnapshot ==
    [][/\ IsPointerDown => rects' = rects /\ oval' = oval
       /\ \A o \in Origins : \A id \in TargetIds :
             /\ onMouseDownRectMove(o[1], o[2], id) =>
                   StartedAt("moveRect", o[1], o[2]) /\ SnapshotOfRect(id)
             /\ \A dir \in Directions :
                   /\ onMouseDownRectW(o[1], o[2], id, dir) =>
                         /\ StartedAt("resizeRectW", o[1], o[2])
                         /\ SnapshotOfRect(id)
                         /\ dragRef'.orig.dir = dir
                   /\ onMouseDownRectH(o[1], o[2], id, dir) =>
                         /\ StartedAt("resizeRectH", o[1], o[2])
                         /\ SnapshotOfRect(id)
                         /\ dragRef'.orig.dir = dir
       /\ \A o \in Origins : \A dir \in Directions :
             /\ onMouseDownOvalRX(o[1], o[2], dir) =>
                   /\ StartedAt("resizeOvalRX", o[1], o[2])
                   /\ SnapshotOfOval
                   /\ dragRef'.orig.dir = dir
             /\ onMouseDownOvalRY(o[1], o[2], dir) =>
                   /\ StartedAt("resizeOvalRY", o[1], o[2])
                   /\ SnapshotOfOval
                   /\ dragRef'.orig.dir = dir
       /\ dragRef' # dragRef => IsPointerDown \/ onMouseUp]_vars

\* a width session started on a rectangle an earlier session had resized:
\* its snapshot holds the resized width, and a move of the new session has
\* already changed the live width
C17_Witness ==
    /\ dragRef # NULL
    /\ RectSession(dragRef, "resizeRectW")
    /\ dragRef.orig.w # I(120)
    /\ find(rects, dragRef.id).w # dragRef.orig.w

(***************************************************************************)
(* C18 - in every reachable state every rectangle has                      *)
(* 20 <= width <= 900 and 10 <= height <= 600.                             *)
(***************************************************************************)
C18_SizeBounds ==
    \A i \in 1..Len(rects) :
        /\ RLe(I(20), rects[i].w) /\ RLe(rects[i].w, I(900))
        /\ RLe(I(10), rects[i].h) /\ RLe(rects[i].h, I(600))

(***************************************************************************)
(* C19 - in every reachable state every rectangle's center lies inside     *)
(* the canvas: 0 <= cx <= 960 and 0 <= cy <= 560.                          *)
(***************************************************************************)
C19_CenterInCanvas ==
    \A i \in 1..Len(rects) :
        /\ RLe(I(0), rects[i].cx) /\ RLe(rects[i].cx, I(W))
        /\ RLe(I(0), rects[i].cy) /\ RLe(rects[i].cy, I(H))

(***************************************************************************)
(* C20 - a pointer-up or pointer-leave received while no session is        *)
(* active changes no rectangle and no ellipse field.                       *)
(***************************************************************************)
C20_IdleUpNoOp ==
    [][((PointerUp \/ PointerLeave) /\ dragRef = NULL)
          => (rects' = rects /\ oval' = oval)]_vars

=============================================================================
